---- MODULE Spec2Model ----
(***************************************************************************)
(* The parameter-sweep acquisition controller of the two thermoelectric    *)
(* measurement scripts:                                                    *)
(*   SD  te_stability_diagram_4stanford_4adwin.py                          *)
(*       loops  t > i_h > vg > vb, one save per gate value                 *)
(*   FR  4stanford_4adwin_dut_frequency_response.py                        *)
(*       loops  t > i_h > vgs > vds > f, one save per (vgs, vds)           *)
(* Voltages are integers: one unit is one quantisation step of the DAC,    *)
(* physical setpoints are expressed in the same unit before their gain is  *)
(* applied.  Heater currents are in microampere, rms drives in microvolt.  *)
(***************************************************************************)
EXTENDS Integers, Sequences, FiniteSets, TLC

\* ----- bounds of the model ------------------------------------------------
MaxOuter == 2
MaxVg == 3
MaxInner == 2
NumChannels == 3
MaxCells == 9

\* ----- program constants ----------------------------------------------------
vg_steps == 100
vb_steps == 100
output_resolution == 16

Scripts == {"SD", "FR"}
Channels == 1..NumChannels

\* axis value lists the operator may configure: prefixes of rotations of a base list
VgBase == <<0, 200, 200, 0>>
VbBase == <<1, 0, 0, 1>>
IhBase == <<3, 3000, 3, 0>>
FBase == <<5, 500, 50>>
Offsets == {0, 1}
SweepSteps == {100, 200}

AxisList(base, off, n) ==
    [i \in 1..n |-> base[((i - 1 + off) % Len(base)) + 1]]

\* ----- helpers ----------------------------------------------------------------
Abs(x) == IF x < 0 THEN -x ELSE x

Max2(a, b) == IF a >= b THEN a ELSE b

\* numpy.ceil of the quotient num / den, den > 0
CeilDiv(num, den) == -((-num) \div den)

\* nearest integer to num / den, den > 0
Round(num, den) == (2 * num + den) \div (2 * den)

\* adc.voltage2bin / adc.bin2voltage for the 16 bit outputs: offset binary
voltage2bin(v) == v + 2 ^ (output_resolution - 1)

bin2voltage(b) == b - 2 ^ (output_resolution - 1)

\* amplitude2rms(i / gain) in microvolt, i in microampere, gain in milliampere per volt
amplitude2rms(i, gain_mA_V) == (i * 7071) \div (gain_mA_V * 10)

\* numpy.linspace(a, b, n) / gain, converted by voltage2bin; gain = g[1] / g[2]
\* linspace(a, b, 0) is empty and linspace(a, b, 1) is [a]
linspace_codes(a, b, n, g) ==
    IF n = 0 THEN << >>
    ELSE IF n = 1 THEN << voltage2bin(Round(a * g[2], g[1])) >>
    ELSE [i \in 1..n |->
            voltage2bin(Round((a * (n - 1) + (i - 1) * (b - a)) * g[2], (n - 1) * g[1]))]

VARIABLES
    script,                \* which of the two scripts runs
    nT, i_h, vg, vb, f,    \* the axis lists of the measurement options
    sweep_step,            \* settings.adc.sweep_step (FR), 0 when the attribute is absent
    avi_gain,              \* settings.avi.gain (SD), settings.avi2.gain (FR), in V/A
    addr,                  \* settings.<instrument>.address, "None" when not configured
    loaded,                \* the driver objects created at load time
    pc,                    \* position of the script
    idx_t, idx_i_h, idx_vg, idx_vb, idx_f,
    current_input_state,   \* the script's flag for the heater source input
    src3,                  \* [input, output] state of the current source
    lockin1_out, lockin2_out,   \* rms outputs of lock-in 1 (heater drive) and 2 (AC excitation)
    lockin2_ref,           \* reference the lock-in 2 is set to
    tset,                  \* index of the temperature setpoint applied, 0 before the first
    ops,                   \* instrument operations of the latest instrument step
    aligner,               \* the BrainAligner object of the image aligner, its fields
    par,                   \* ADwin parameters 21, 22, 41, 42
    data21, data22,        \* ADwin output arrays of AO1 and AO2
    ao,                    \* codes held by AO1 and AO2 (Par 51 and 52)
    proc,                  \* number of the running ADwin process, 0 when none runs
    bursts,                \* number of acquisition bursts completed
    got,                   \* samples per channel the latest burst delivered
    polled,                \* FR: the measurement loop has read the arrays while process 4 ran
    ch,                    \* channel the store step is at
    data,                  \* the result grid: cell -> channel -> burst stored, 0 as allocated
    fs,                    \* the two files: canonical result file and backup
    \* ----- history variables (observations, never read by the script) -----
    writes,                \* cell -> channel -> number of writes
    savesDone,             \* completed saves
    lastSaved,             \* grid passed to the most recent completed save
    prevSaved,             \* grid passed to the save before it
    saved,                 \* the durable states the last two completed saves left
    sinceCell,             \* saves completed since the last cell was stored
    gapLog,                \* at the latest store: [first, saves, stored]
    winLog,                \* at the latest store: the window read and the burst it is read from
    sweepUnsaved,          \* an innermost sweep is complete and not yet saved
    rampLog,               \* the latest ramp: [out, from, to, seq]
    rampCount,             \* ramps started so far, by the step that started them
    raised                 \* the error that ended the script, "none" while it runs

vars == << aligner, script, nT, i_h, vg, vb, f, sweep_step, avi_gain, addr, loaded, pc,
           idx_t, idx_i_h, idx_vg, idx_vb, idx_f, current_input_state, src3,
           lockin1_out, lockin2_out, lockin2_ref, tset, ops, par, data21, data22, ao, proc,
           bursts, got, polled, ch, data, fs, writes, savesDone, lastSaved, prevSaved, saved,
           sinceCell, gapLog, winLog, sweepUnsaved, rampLog, rampCount,
           raised >>

\* what a run of a lab script never changes: its options, and the image aligner, a
\* program of its own that does not run with the scripts
inputs == << script, nT, i_h, vg, vb, f, sweep_step, avi_gain, loaded, aligner >>

loopvars == << idx_t, idx_i_h, idx_vg, idx_vb, idx_f >>

adwin == << par, data21, data22, ao, proc, bursts, got, polled >>

sources == << current_input_state, src3, lockin1_out, lockin2_out, lockin2_ref, tset,
             ops >>

history == << writes, savesDone, lastSaved, prevSaved, saved, sinceCell, gapLog, winLog,
              sweepUnsaved, rampLog, rampCount >>

\* ----- settings ---------------------------------------------------------------
\* settings.avv1.gain (gate), as numerator and denominator
avv1_gain == IF script = "SD" THEN << 10, 1 >> ELSE << 100, 1 >>

\* vb_divider (SD) and settings.avv2.gain (FR): the bias gain
avv2_gain == IF script = "SD" THEN << 1, 10 >> ELSE << 1, 1000 >>

\* settings.avv4.gain, used by the frequency-response ramp of Vds to 0
avv4_gain == << 10, 1 >>

\* settings.src3.gain in milliampere per volt
src3_gain == IF script = "SD" THEN 10 ELSE 1

\* amplitude2rms(v_ex / divider): 0.1 V of amplitude in both scripts
v_ex_rms == amplitude2rms(100, 1)

\* the rms drive of lock-in 1 for a heater current
Drive(i) == amplitude2rms(i, src3_gain)

\* settling_time + measurement_time of a frequency, in samples of 1 / line_freq
vt_samples(val_f) ==
    IF val_f < 10 THEN (3 * 10 * 3 + 3 * 10) * 50
    ELSE IF val_f < 100 THEN (1 * 10 * 3 + 1 * 10) * 50
    ELSE 4 * 50

\* measurement_time of a frequency, in samples of 1 / line_freq
vt_samples2avg(val_f) ==
    IF val_f < 10 THEN (3 * 10) * 50
    ELSE IF val_f < 100 THEN (1 * 10) * 50
    ELSE 1 * 50

\* no_samples and no_samples2avg, from settings.adc.vt_settling_time and
\* settings.adc.vt_measurement_time: 180 s and 60 s (SD), 1 s and 1 s (FR)
no_samples == IF script = "SD" THEN (60 * 3 + 60 * 1) * 50 ELSE (1 + 1) * 50

no_samples2avg == IF script = "SD" THEN (60 * 1) * 50 ELSE 1 * 50

\* GetData_Float(n, no_samples - no_samples2avg, no_samples2avg): the samples read
\* back of a channel, first and last index, the device counting from 1
Window ==
    [lo |-> no_samples - no_samples2avg,
     hi |-> (no_samples - no_samples2avg) + no_samples2avg - 1]

\* ----- the result grid and the files ------------------------------------------
Cells ==
    { << a, b, c, d, e >> : a \in 1..nT, b \in 1..Len(i_h), c \in 1..Len(vg),
                            d \in 1..Len(vb), e \in 1..Len(f) }

ZeroGrid == [c \in Cells |-> [k \in Channels |-> 0]]

Absent == [kind |-> "absent", grid |-> ZeroGrid]

Partial == [kind |-> "partial", grid |-> ZeroGrid]

Complete(g) == [kind |-> "complete", grid |-> g]

Exists(file) == file.kind # "absent"

\* mutant: gate and bias index are swapped in the subscript
CellIndex_Swapped(it, ih, ig, ib, if) == << it, ih, ib, ig, if >>

\* mutant: the bias index is left out of the subscript
CellIndex_NoBias(it, ih, ig, ib, if) == << it, ih, ig, 1, if >>

\* data.t[idx_t]["sd"][h][idx_i_h](...)[idx_vg, idx_vb]: the cell the store step writes
CellIndex(it, ih, ig, ib, if) == << it, ih, ig, ib, if >>

cell == CellIndex(idx_t, idx_i_h, idx_vg, idx_vb, idx_f)

Zero == voltage2bin(0)

\* gains of the current amplifier the operator may enter: the shipped 1e6 V/A, and 0
AviGains == { 0, 10 ^ 6 }

AddrConfigs ==
    { [tc |-> "visa", src3 |-> "visa", lockin1 |-> "visa", lockin2 |-> "visa"],
      [tc |-> "None", src3 |-> "None", lockin1 |-> "None", lockin2 |-> "None"] }

Terminal == {"done", "interrupted", "aborted"}

\* the steps that start a ramp of an analog output
RampKinds == {"gate", "bias", "biasBack", "gateBack", "vgsVds", "toZero"}

\* ----- the image aligner (class BrainAligner) -------------------------------------
\* number of clicks and key presses one session of the aligner handles
MaxEvents == 3

\* an image: size in voxels, spacing and origin in physical units, and the transforms
\* sitk.Resample has applied to it, in order
Image(size, spacing, origin) ==
    [size |-> size, spacing |-> spacing, origin |-> origin, resampled |-> << >>]

FixImages == { Image(<< 4, 4, 4 >>, << 1, 1, 1 >>, << 0, 0, 0 >>) }

MovImages == { Image(<< 4, 4, 4 >>, << 2, 2, 2 >>, << 1, 0, 0 >>),
               Image(<< 6, 4, 4 >>, << 2, 2, 2 >>, << 1, 0, 0 >>) }

\* self.transform = None
None == [set |-> FALSE, parts |-> << >>]

\* sitk.TranslationTransform(3) with SetOffset(offset)
TranslationTransform(offset) ==
    [set |-> TRUE,
     parts |-> << [kind |-> "translation", offset |-> offset, scale |-> << 1, 1 >>,
                   center |-> << 0, 0, 0 >>] >>]

\* sitk.ScaleTransform(3) with SetScale of num / den on each axis and SetCenter(center)
ScaleTransform(num, den, center) ==
    [set |-> TRUE,
     parts |-> << [kind |-> "scale", offset |-> << 0, 0, 0 >>, scale |-> << num, den >>,
                   center |-> center] >>]

\* sitk.CompositeTransform([t1, t2])
CompositeTransform(t1, t2) == [set |-> TRUE, parts |-> t1.parts \o t2.parts]

\* transform.GetInverse(): the inverse parts in reverse order
GetInverse(t) ==
    [set |-> TRUE,
     parts |-> [q \in 1..Len(t.parts) |->
                  LET part == t.parts[Len(t.parts) + 1 - q]
                  IN  [kind |-> part.kind,
                       offset |-> [x \in 1..3 |-> 0 - part.offset[x]],
                       scale |-> << part.scale[2], part.scale[1] >>,
                       center |-> part.center]]]

\* image.TransformIndexToPhysicalPoint(index), the direction being the identity
TransformIndexToPhysicalPoint(img, index) ==
    [x \in 1..3 |-> img.origin[x] + img.spacing[x] * index[x]]

\* sitk.Resample(img, transform=t, ...): the output keeps the geometry of img
Resample(img, t) == [img EXCEPT !.resampled = Append(@, t.parts)]

\* BrainAligner.__init__
BrainAligner(fix_img, mov_img) ==
    [fix_img |-> fix_img, mov_img |-> mov_img,
     i0 |-> fix_img.size[1] \div 2, j0 |-> fix_img.size[2] \div 2,
     k0 |-> fix_img.size[3] \div 2,
     l0 |-> mov_img.size[1] \div 2, m0 |-> mov_img.size[2] \div 2,
     n0 |-> mov_img.size[3] \div 2,
     i |-> fix_img.size[1] \div 2, j |-> fix_img.size[2] \div 2,
     k |-> fix_img.size[3] \div 2,
     l |-> mov_img.size[1] \div 2, m |-> mov_img.size[2] \div 2,
     n |-> mov_img.size[3] \div 2,
     transform |-> None,
     open |-> TRUE,
     event |-> [type |-> "none", button |-> 0, label |-> "", key |-> ""],
     err |-> "none",
     events |-> 0]

Init ==
    /\ aligner = BrainAligner(CHOOSE img \in FixImages : TRUE,
                              CHOOSE img \in MovImages : img.size[1] = 4)
    /\ script \in Scripts
    /\ nT \in 1..MaxOuter
    /\ i_h \in { AxisList(IhBase, o, n) : o \in Offsets, n \in 1..MaxOuter }
    /\ vg \in { AxisList(VgBase, o, n) : o \in Offsets, n \in 1..MaxVg }
    /\ vb \in { AxisList(VbBase, o, n) : o \in Offsets, n \in 1..MaxInner }
    /\ f \in IF script = "SD" THEN { << 0 >> }
              ELSE { AxisList(FBase, 0, n) : n \in 1..MaxInner }
    /\ nT * Len(i_h) * Len(vg) * Len(vb) * Len(f) <= MaxCells
    /\ sweep_step \in IF script = "SD" THEN { 0 } ELSE { 0 } \cup SweepSteps
    /\ avi_gain \in AviGains
    /\ addr \in AddrConfigs
    /\ loaded = [k \in DOMAIN addr |-> addr[k] # "None"]
    /\ pc = "setT"
    /\ idx_t = 1 /\ idx_i_h = 1 /\ idx_vg = 1 /\ idx_vb = 1 /\ idx_f = 1
    /\ current_input_state = FALSE
    /\ src3 = [input |-> "off", output |-> "on"]
    /\ lockin1_out = 0 /\ lockin2_out = 0
    /\ lockin2_ref = "internal"
    /\ tset = 0
    /\ ops = {}
    /\ par = [k \in {21, 22, 41, 42} |-> 0]
    /\ data21 = << >> /\ data22 = << >>
    /\ ao = [ao1 |-> Zero, ao2 |-> Zero]
    /\ proc = 0
    /\ bursts = 0
    /\ got = 0
    /\ polled = FALSE
    /\ ch = 1
    /\ data = ZeroGrid
    /\ fs = [canon |-> Absent, bak |-> Absent]
    /\ writes = ZeroGrid
    /\ savesDone = 0
    /\ lastSaved = ZeroGrid
    /\ prevSaved = ZeroGrid
    /\ saved = << >>
    /\ sinceCell = 0
    /\ gapLog = [first |-> TRUE, saves |-> 0, stored |-> 0]
    /\ winLog = [lo |-> 0, hi |-> 0, got |-> 0, settle |-> 0, total |-> 0,
                 stat |-> "none", input |-> 0, factor |-> << 1, 1 >>]
    /\ sweepUnsaved = FALSE
    /\ rampLog = << >>
    /\ rampCount = [k \in RampKinds |-> 0]
    /\ raised = "none"


\* ----- how the script ends on an error -----------------------------------------
\* an exception no handler catches: the script stops where it is, nothing is saved
Abort(err) ==
    /\ pc' = "aborted"
    /\ raised' = err

\* ----- outer steps -------------------------------------------------------------
\* one operation on an instrument: a driver call when settings.<inst>.address is not
\* None, the input(...) prompt of the else branch otherwise
Op(inst) == [inst |-> inst, kind |-> IF addr[inst] # "None" THEN "remote" ELSE "prompt"]

\* "Set temperature": remote setpoint and thermalisation, or the operator prompt
SetTemperature ==
    /\ pc = "setT"
    /\ tset' = idx_t
    /\ ops' = { Op("tc") }
    /\ pc' = "acUp"
    /\ UNCHANGED << inputs, addr, loopvars, current_input_state, src3, lockin1_out,
                    lockin2_out, lockin2_ref, adwin, ch, data, fs, history, raised >>

\* "Set AC bias voltage": lockin2.sweep_v(0, v_ex_rms) or the operator prompt
AcBiasUp ==
    /\ pc = "acUp"
    /\ ops' = { Op("lockin2") }
    /\ IF addr.lockin2 # "None" /\ ~loaded.lockin2
       THEN Abort("NameError") /\ UNCHANGED << lockin2_out, idx_i_h >>
       ELSE /\ lockin2_out' = v_ex_rms
            /\ idx_i_h' = 1
            /\ pc' = "ihCheck"
            /\ raised' = raised
    /\ UNCHANGED << inputs, addr, idx_t, idx_vg, idx_vb, idx_f, current_input_state,
                    src3, lockin1_out, lockin2_ref, tset, adwin, ch, data, fs, history >>

\* "check heater source state": the input of the current source follows the drive
\* the remote enable does not set current_input_state, the other three branches do
CheckSourceState ==
    /\ pc = "ihCheck"
    /\ IF Drive(i_h[idx_i_h]) < 4000
       THEN IF current_input_state
            THEN /\ src3' = [input |-> "off", output |-> "on"]
                 /\ current_input_state' = FALSE
                 /\ ops' = { Op("src3") }
            ELSE UNCHANGED << src3, current_input_state, ops >>
       ELSE IF current_input_state
            THEN UNCHANGED << src3, current_input_state, ops >>
            ELSE /\ src3' = [input |-> "on", output |-> "on"]
                 /\ current_input_state' = (addr.src3 = "None")
                 /\ ops' = { Op("src3") }
    /\ pc' = IF script = "SD" THEN "ihRamp" ELSE "refCheck"
    /\ UNCHANGED << inputs, addr, loopvars, lockin1_out, lockin2_out, lockin2_ref,
                    tset, adwin, ch, data, fs, history, raised >>

\* "check lockin 2 reference" (FR): settings.lockin2.reference is never assigned,
\* the branches assign settings.lockin2.address instead
CheckLockin2Reference ==
    /\ pc = "refCheck"
    /\ IF Drive(i_h[idx_i_h]) < 100000
       THEN /\ UNCHANGED << lockin2_ref, addr, ops >>
            /\ pc' = "ihRamp"
            /\ raised' = raised
       ELSE /\ ops' = { Op("lockin2") }
            /\ IF addr.lockin2 # "None" /\ ~loaded.lockin2
               THEN Abort("NameError") /\ UNCHANGED << lockin2_ref, addr >>
               ELSE /\ lockin2_ref' = "external"
                    /\ addr' = [addr EXCEPT !.lockin2 = "external"]
                    /\ pc' = "ihRamp"
                    /\ raised' = raised
    /\ UNCHANGED << inputs, loopvars, current_input_state, src3, lockin1_out,
                    lockin2_out, tset, adwin, ch, data, fs, history >>

\* "Ramp up heater current" and "Wait for steady state", then the gate loop starts
RampHeater ==
    /\ pc = "ihRamp"
    /\ lockin1_out' = Drive(i_h[idx_i_h])
    /\ ops' = { Op("lockin1") }
    /\ idx_vg' = 1
    /\ idx_vb' = IF script = "SD" THEN idx_vb ELSE 1
    /\ pc' = IF script = "SD" THEN "vgRamp" ELSE "vgsVdsRamp"
    /\ UNCHANGED << inputs, addr, idx_t, idx_i_h, idx_f, current_input_state, src3,
                    lockin2_out, lockin2_ref, tset, adwin, ch, data, fs, history, raised >>

\* the ramp-down region without the sweep of lock-in 1
RampHeaterDown_NoSweep ==
    /\ pc = "ihDown"
    /\ lockin1_out' = lockin1_out
    /\ src3' = IF addr.src3 # "None" THEN [src3 EXCEPT !.output = "off"] ELSE src3
    /\ ops' = { Op("lockin1"),
                IF addr.src3 # "None" THEN Op("src3")
                ELSE [inst |-> "src3", kind |-> "skipped"] }
    /\ pc' = "acDown"
    /\ UNCHANGED << inputs, addr, loopvars, current_input_state, lockin2_out,
                    lockin2_ref, tset, adwin, ch, data, fs, history, raised >>

\* "Ramp down heater current": lock-in 1 back to 0, then the source output off
RampHeaterDown ==
    /\ pc = "ihDown"
    /\ lockin1_out' = 0
    /\ src3' = IF addr.src3 # "None" THEN [src3 EXCEPT !.output = "off"] ELSE src3
    /\ ops' = { Op("lockin1"),
                IF addr.src3 # "None" THEN Op("src3")
                ELSE [inst |-> "src3", kind |-> "skipped"] }
    /\ pc' = "acDown"
    /\ UNCHANGED << inputs, addr, loopvars, current_input_state, lockin2_out,
                    lockin2_ref, tset, adwin, ch, data, fs, history, raised >>

\* "Ramp down AC bias voltage", then the next temperature or the end of the script
AcBiasDown ==
    /\ pc = "acDown"
    /\ ops' = { Op("lockin2") }
    /\ IF addr.lockin2 # "None" /\ ~loaded.lockin2
       THEN Abort("NameError") /\ UNCHANGED << lockin2_out, idx_t >>
       ELSE /\ lockin2_out' = 0
            /\ raised' = raised
            /\ IF idx_t < nT
               THEN idx_t' = idx_t + 1 /\ pc' = "setT"
               ELSE idx_t' = idx_t /\ pc' = IF script = "SD" THEN "done" ELSE "rmBackup"
    /\ UNCHANGED << inputs, addr, idx_i_h, idx_vg, idx_vb, idx_f, current_input_state,
                    src3, lockin1_out, lockin2_ref, tset, adwin, ch, data, fs, history >>


\* ----- ramps of the analog outputs -----------------------------------------------
Counted(kind) == [rampCount EXCEPT ![kind] = @ + 1]

\* what is recorded of a ramp: the output, the plan's start and target, their codes
\* and the array sent
RampEntry(out, from, to, seq, g) ==
    [out |-> out, from |-> from, to |-> to,
     start |-> voltage2bin(Round(from * g[2], g[1])),
     target |-> voltage2bin(Round(to * g[2], g[1])), seq |-> seq]

\* the setpoint array of a gate or bias step of the stability diagram:
\* array([val]) / gain when the step does not move, linspace(...) / gain otherwise
StepCodes(val_, val, steps, g) ==
    IF val_ = val THEN linspace_codes(val, val, 1, g)
    ELSE linspace_codes(val_, val, steps, g)

\* "Sweep DC gate voltage" (SD): from the previous gate value, 0 for the first
RampGate ==
    /\ pc = "vgRamp"
    /\ LET val_vg_ == IF idx_vg = 1 THEN 0 ELSE vg[idx_vg - 1]
           val_vg == vg[idx_vg]
           temp_vg == StepCodes(val_vg_, val_vg, vg_steps, avv1_gain)
       IN  /\ data21' = temp_vg
           /\ par' = [par EXCEPT ![21] = 1, ![22] = 0, ![41] = Len(temp_vg)]
           /\ rampLog' = << RampEntry("ao1", val_vg_, val_vg, temp_vg, avv1_gain) >>
           /\ rampCount' = Counted("gate")
    /\ proc' = 4
    /\ pc' = "vgWait"
    /\ UNCHANGED << inputs, addr, loopvars, sources, data22, ao, bursts, got, polled, ch,
                    data, fs, writes, savesDone, lastSaved, prevSaved, saved, sinceCell,
                    gapLog, winLog, sweepUnsaved, raised >>

\* "Sweep DC bias voltage" (SD): from the previous bias value, 0 for the first
RampBias ==
    /\ pc = "vbRamp"
    /\ LET val_vb_ == IF idx_vb = 1 THEN 0 ELSE vb[idx_vb - 1]
           val_vb == vb[idx_vb]
           temp_vb == StepCodes(val_vb_, val_vb, vb_steps, avv2_gain)
       IN  /\ data22' = temp_vb
           /\ par' = [par EXCEPT ![21] = 0, ![22] = 1, ![42] = Len(temp_vb)]
           /\ rampLog' = << RampEntry("ao2", val_vb_, val_vb, temp_vb, avv2_gain) >>
           /\ rampCount' = Counted("bias")
    /\ proc' = 4
    /\ pc' = "vbWait"
    /\ UNCHANGED << inputs, addr, loopvars, sources, data21, ao, bursts, got, polled, ch,
                    data, fs, writes, savesDone, lastSaved, prevSaved, saved, sinceCell,
                    gapLog, winLog, sweepUnsaved, raised >>

\* "Sweep DC bias back to 0" (SD), after the bias loop of a gate value
RampBiasBack ==
    /\ pc = "vbBack"
    /\ LET temp_vb == linspace_codes(vb[idx_vb], 0, vb_steps, avv2_gain)
       IN  /\ data22' = temp_vb
           /\ par' = [par EXCEPT ![21] = 0, ![22] = 1, ![42] = Len(temp_vb)]
           /\ rampLog' = << RampEntry("ao2", vb[idx_vb], 0, temp_vb, avv2_gain) >>
           /\ rampCount' = Counted("biasBack")
    /\ proc' = 4
    /\ pc' = "vbBackWait"
    /\ UNCHANGED << inputs, addr, loopvars, sources, data21, ao, bursts, got, polled, ch,
                    data, fs, writes, savesDone, lastSaved, prevSaved, saved, sinceCell,
                    gapLog, winLog, sweepUnsaved, raised >>

\* the array of "Sweep DC gate voltage back to 0": linspace(0, vg[idx_vg], vg_steps) / gain
GateBackCodes(last_vg) == linspace_codes(0, last_vg, vg_steps, avv1_gain)

\* "Sweep DC gate voltage back to 0" (SD), after the heater current loop of a temperature
RampGateBack ==
    /\ pc = "vgBack"
    /\ LET temp_vg == GateBackCodes(vg[idx_vg])
       IN  /\ data21' = temp_vg
           /\ par' = [par EXCEPT ![21] = 1, ![22] = 0, ![41] = Len(temp_vg)]
           /\ rampLog' = << RampEntry("ao1", 0, vg[idx_vg], temp_vg, avv1_gain) >>
           /\ rampCount' = Counted("gateBack")
    /\ proc' = 4
    /\ pc' = "vgBackWait"
    /\ UNCHANGED << inputs, addr, loopvars, sources, data22, ao, bursts, got, polled, ch,
                    data, fs, writes, savesDone, lastSaved, prevSaved, saved, sinceCell,
                    gapLog, winLog, sweepUnsaved, raised >>

\* the values the script reads back from Par 51 and Par 52 (FR)
ReadVgs == Round(bin2voltage(ao.ao1) * avv1_gain[1], avv1_gain[2])

ReadVds == Round(bin2voltage(ao.ao2) * avv2_gain[1], avv2_gain[2])

\* n_steps of "Set vgs and Vds": steps_vds is computed from val_vgs_
StepsTo(val_vgs_, val_vgs, val_vds) ==
    Max2(CeilDiv(Abs(val_vds - val_vgs_), sweep_step),
         CeilDiv(Abs(val_vgs - val_vgs_), sweep_step))

\* "Set vgs and Vds" (FR): both outputs ramp together from their read-back values.
\* settings.adc.sweep_step is read here and assigned nowhere in the script: with the
\* attribute absent (sweep_step = 0) the read raises and the script ends
RampVgsVds ==
    /\ pc = "vgsVdsRamp"
    /\ IF sweep_step = 0
       THEN /\ Abort("AttributeError")
            /\ UNCHANGED << data21, data22, par, rampLog, rampCount, proc >>
       ELSE /\ LET val_vgs_ == ReadVgs
                   val_vds_ == ReadVds
                   n_steps == StepsTo(val_vgs_, vg[idx_vg], vb[idx_vb])
                   temp_vgs == linspace_codes(val_vgs_, vg[idx_vg], n_steps, avv1_gain)
                   temp_vds == linspace_codes(val_vds_, vb[idx_vb], n_steps, avv2_gain)
               IN  /\ data21' = temp_vgs
                   /\ data22' = temp_vds
                   /\ par' = [par EXCEPT ![41] = Len(temp_vds)]
                   /\ rampLog' =
                        << RampEntry("ao1", val_vgs_, vg[idx_vg], temp_vgs, avv1_gain),
                           RampEntry("ao2", val_vds_, vb[idx_vb], temp_vds, avv2_gain) >>
                   /\ rampCount' = Counted("vgsVds")
            /\ proc' = 7
            /\ pc' = "rampWait"
            /\ raised' = raised
    /\ UNCHANGED << inputs, addr, loopvars, sources, ao, bursts, got, polled, ch, data, fs,
                    writes, savesDone, lastSaved, prevSaved, saved, sinceCell, gapLog,
                    winLog, sweepUnsaved >>

\* "Sweep Vgs and Vds to 0 V" (FR), after the gate loop of a heater current;
\* the Vds array is divided by settings.avv4.gain
SweepToZero ==
    /\ pc = "toZero"
    /\ LET val_vgs_ == ReadVgs
           val_vds_ == ReadVds
           n_steps == Max2(CeilDiv(Abs(val_vds_), sweep_step),
                           CeilDiv(Abs(val_vgs_), sweep_step))
           temp_vgs == linspace_codes(val_vgs_, 0, n_steps, avv1_gain)
           temp_vds == linspace_codes(val_vds_, 0, n_steps, avv4_gain)
       IN  /\ data21' = temp_vgs
           /\ data22' = temp_vds
           /\ par' = [par EXCEPT ![41] = Len(temp_vds)]
           /\ rampLog' = << RampEntry("ao1", val_vgs_, 0, temp_vgs, avv1_gain),
                            RampEntry("ao2", val_vds_, 0, temp_vds, avv4_gain) >>
           /\ rampCount' = Counted("toZero")
    /\ proc' = 7
    /\ pc' = "zeroWait"
    /\ UNCHANGED << inputs, addr, loopvars, sources, ao, bursts, got, polled, ch, data, fs,
                    writes, savesDone, lastSaved, prevSaved, saved, sinceCell, gapLog,
                    winLog, sweepUnsaved, raised >>

\* ----- the ADwin processes ---------------------------------------------------------
\* value an output holds after a sweep process ran through an array of n codes
Held(old, arr, n) == IF n >= 1 /\ n <= Len(arr) THEN arr[n] ELSE old

\* samples per channel an acquisition burst is started for: Par 71 (SD), Par 41 (FR)
BurstTotal == IF script = "SD" THEN no_samples ELSE par[41]

\* the settling portion of that burst
BurstSettle ==
    IF script = "SD" THEN (60 * 3) * 50
    ELSE vt_samples(f[idx_f]) - vt_samples2avg(f[idx_f])

\* what the acquisition unit delivers of a burst: all of it, or fewer samples when it
\* stops early (timeout, overrun)
Deliveries(total) == { total, total \div 2 }

\* a started process runs to its end: the sweep processes (4 in SD, 7 in FR) step the
\* enabled outputs through their arrays, the acquisition processes (2 in SD, 4 in FR)
\* fill the input arrays with one burst
ProcFinish ==
    /\ proc # 0
    /\ IF script = "SD" /\ proc = 4
       THEN /\ ao' = [ao1 |-> IF par[21] = 1 THEN Held(ao.ao1, data21, par[41]) ELSE ao.ao1,
                      ao2 |-> IF par[22] = 1 THEN Held(ao.ao2, data22, par[42]) ELSE ao.ao2]
            /\ bursts' = bursts /\ got' = got
       ELSE IF script = "FR" /\ proc = 7
       THEN /\ ao' = [ao1 |-> Held(ao.ao1, data21, par[41]),
                      ao2 |-> Held(ao.ao2, data22, par[41])]
            /\ bursts' = bursts /\ got' = got
       ELSE /\ ao' = ao
            /\ bursts' = bursts + 1
            /\ got' \in Deliveries(BurstTotal)
    /\ proc' = 0
    /\ UNCHANGED << inputs, addr, pc, loopvars, sources, par, data21, data22, polled, ch,
                    data, fs, history, raised >>


\* ----- loop control ----------------------------------------------------------------
Stay == [pc |-> pc, idx_i_h |-> idx_i_h, idx_vg |-> idx_vg, idx_vb |-> idx_vb,
         idx_f |-> idx_f]

Goto(p) == [Stay EXCEPT !.pc = p]

\* mutant: the save is left out after the bias ramp back to 0 (SD)
AfterWait_SkipSave ==
    CASE pc = "vgWait" -> [Goto("vbRamp") EXCEPT !.idx_vb = 1]
      [] pc = "vbWait" -> Goto("measure")
      [] pc = "measWait" -> Goto("store")
      [] pc = "vbBackWait" ->
            IF idx_vg < Len(vg) THEN [Goto("vgRamp") EXCEPT !.idx_vg = idx_vg + 1]
            ELSE Goto("save")
      [] pc = "vgBackWait" -> Goto("ihDown")
      [] pc = "rampWait" -> [Goto("setFreq") EXCEPT !.idx_f = 1]
      [] pc = "zeroWait" ->
            IF idx_i_h < Len(i_h)
            THEN [Goto("ihCheck") EXCEPT !.idx_i_h = idx_i_h + 1]
            ELSE Goto("ihDown")

\* where a wait-for-completion loop leads once the process has stopped
AfterWait ==
    CASE pc = "vgWait" -> [Goto("vbRamp") EXCEPT !.idx_vb = 1]
      [] pc = "vbWait" -> Goto("measure")
      [] pc = "measWait" -> Goto("store")
      [] pc = "vbBackWait" -> Goto("save")
      [] pc = "vgBackWait" -> Goto("ihDown")
      [] pc = "rampWait" -> [Goto("setFreq") EXCEPT !.idx_f = 1]
      [] pc = "zeroWait" ->
            IF idx_i_h < Len(i_h)
            THEN [Goto("ihCheck") EXCEPT !.idx_i_h = idx_i_h + 1]
            ELSE Goto("ihDown")

\* where the script goes once the data file is written
LoopAfterSave ==
    IF script = "SD"
    THEN IF idx_vg < Len(vg) THEN [Goto("vgRamp") EXCEPT !.idx_vg = idx_vg + 1]
         ELSE IF idx_i_h < Len(i_h) THEN [Goto("ihCheck") EXCEPT !.idx_i_h = idx_i_h + 1]
         ELSE Goto("vgBack")
    ELSE IF idx_vb < Len(vb) THEN [Goto("vgsVdsRamp") EXCEPT !.idx_vb = idx_vb + 1]
         ELSE IF idx_vg < Len(vg)
         THEN [Goto("vgsVdsRamp") EXCEPT !.idx_vg = idx_vg + 1, !.idx_vb = 1]
         ELSE Goto("toZero")

\* mutant: no save follows the frequency loop (FR)
LoopAfterStore_NoSave ==
    IF script = "SD"
    THEN IF idx_vb < Len(vb) THEN [Goto("vbRamp") EXCEPT !.idx_vb = idx_vb + 1]
         ELSE Goto("vbBack")
    ELSE IF idx_f < Len(f) THEN [Goto("setFreq") EXCEPT !.idx_f = idx_f + 1]
         ELSE LoopAfterSave

\* mutant: the bias is not ramped back to 0 after the bias loop (SD)
LoopAfterStore_NoBiasBack ==
    IF script = "SD"
    THEN IF idx_vb < Len(vb) THEN [Goto("vbRamp") EXCEPT !.idx_vb = idx_vb + 1]
         ELSE Goto("save")
    ELSE IF idx_f < Len(f) THEN [Goto("setFreq") EXCEPT !.idx_f = idx_f + 1]
         ELSE Goto("save")

\* the innermost loop: bias in SD, frequency in FR
InnermostFirst == IF script = "SD" THEN idx_vb = 1 ELSE idx_f = 1

InnermostLast == IF script = "SD" THEN idx_vb = Len(vb) ELSE idx_f = Len(f)

\* where the script goes once a cell is stored: the next innermost value, or past the
\* innermost loop the bias ramp back to 0 (SD) or the save (FR)
LoopAfterStore ==
    IF script = "SD"
    THEN IF idx_vb < Len(vb) THEN [Goto("vbRamp") EXCEPT !.idx_vb = idx_vb + 1]
         ELSE Goto("vbBack")
    ELSE IF idx_f < Len(f) THEN [Goto("setFreq") EXCEPT !.idx_f = idx_f + 1]
         ELSE Goto("save")

Jump(j) ==
    /\ pc' = j.pc
    /\ idx_i_h' = j.idx_i_h
    /\ idx_vg' = j.idx_vg
    /\ idx_vb' = j.idx_vb
    /\ idx_f' = j.idx_f

\* "while adc.adw.Process_Status(n) == 1": left once the process has stopped; the
\* measurement loop of FR is left only when Par 35 has reached vt_samples
WaitProcess ==
    /\ pc \in {"vgWait", "vbWait", "measWait", "vbBackWait", "vgBackWait", "rampWait",
               "zeroWait"}
    /\ proc = 0
    /\ (script = "FR" /\ pc = "measWait") => got = par[41]
    /\ Jump(AfterWait)
    /\ ch' = 1
    /\ polled' = FALSE
    /\ UNCHANGED << inputs, addr, idx_t, sources, par, data21, data22, ao, proc, bursts,
                    got, data, fs, history, raised >>

\* ----- one grid cell -----------------------------------------------------------------
\* "Set lockin frequency", "Set settling and measurement time" (FR): lockin1 and
\* lockin2 are used whether or not their address is configured
SetFrequency ==
    /\ pc = "setFreq"
    /\ ops' = { [inst |-> "lockin1", kind |-> "remote"],
                [inst |-> "lockin2", kind |-> "remote"] }
    /\ IF loaded.lockin1 /\ loaded.lockin2
       THEN pc' = "measure" /\ raised' = raised
       ELSE Abort("NameError")
    /\ UNCHANGED << inputs, addr, loopvars, current_input_state, src3, lockin1_out,
                    lockin2_out, lockin2_ref, tset, adwin, ch, data, fs, history >>

\* "Measure": the acquisition process is started; FR sets the burst length in Par 41
Measure ==
    /\ pc = "measure"
    /\ par' = IF script = "SD" THEN par ELSE [par EXCEPT ![41] = vt_samples(f[idx_f])]
    /\ proc' = IF script = "SD" THEN 2 ELSE 4
    /\ pc' = "measWait"
    /\ polled' = FALSE
    /\ UNCHANGED << inputs, addr, loopvars, sources, data21, data22, ao, bursts, got,
                    ch, data, fs, history, raised >>

\* "Measure (and plot in real time) oscillations" (FR): in the loop, while
\* Process_Status(4) reports the process running, the samples acquired so far are
\* read with GetData_Long(n, 1, idx) for the figure
PollRead ==
    /\ script = "FR"
    /\ pc = "measWait"
    /\ proc # 0
    /\ ~polled
    /\ polled' = TRUE
    /\ UNCHANGED << inputs, addr, pc, loopvars, sources, par, data21, data22, ao, proc,
                    bursts, got, ch, data, fs, history, raised >>

\* adc.bin2voltage(ai) * sensitivity / 10 / gain on the array read back: a division of
\* an array by 0 gives inf or nan with a warning and raises nothing, so mean and std
\* of it are not finite
Calibrated(gain) == IF gain = 0 THEN "nonfinite" ELSE "finite"

\* settings.lockin1.sensitivity and settings.lockin2.sensitivity in volt, as numerator
\* and denominator: 50e-3 (SD) and 1 (FR) for both lock-ins
lockin_sensitivity == IF script = "SD" THEN << 1, 20 >> ELSE << 1, 1 >>

\* the lock-in whose analog output an input of the ADwin reads: X and Y of lock-in 1 on
\* inputs 1 and 2, X and Y of lock-in 2 on inputs 3 and 4, no lock-in on input 5
LockinOf(k) == IF k \in {1, 2} THEN 1 ELSE IF k \in {3, 4} THEN 2 ELSE 0

\* the factor applied to adc.bin2voltage(ai) of an input before the division by the
\* gain, as numerator and denominator: "* settings.lockin1.sensitivity / 10" on inputs
\* 1 and 2, "/ settings.lockin2.sensitivity * 10" on inputs 3 and 4, none on input 5
Factor(k) ==
    LET s == lockin_sensitivity
    IN  IF LockinOf(k) = 1 THEN << s[1], 10 * s[2] >>
        ELSE IF LockinOf(k) = 2 THEN << 10 * s[2], s[1] >>
        ELSE << 1, 1 >>

\* "Read and store data locally": one channel after the other is read back, averaged
\* and written into the cell of the current indices
Store ==
    /\ pc = "store"
    /\ data' = [data EXCEPT ![cell][ch] = bursts]
    /\ writes' = [writes EXCEPT ![cell][ch] = @ + 1]
    /\ gapLog' = IF ch = 1
                 THEN [first |-> InnermostFirst, saves |-> sinceCell, stored |-> bursts]
                 ELSE gapLog
    /\ winLog' = [lo |-> Window.lo, hi |-> Window.hi, got |-> got,
                  settle |-> BurstSettle, total |-> BurstTotal,
                  stat |-> Calibrated(avi_gain), input |-> ch, factor |-> Factor(ch)]
    /\ IF ch < NumChannels
       THEN /\ ch' = ch + 1
            /\ UNCHANGED << pc, loopvars, sinceCell, sweepUnsaved >>
       ELSE /\ ch' = 1
            /\ Jump(LoopAfterStore)
            /\ idx_t' = idx_t
            /\ sinceCell' = 0
            /\ sweepUnsaved' = InnermostLast
    /\ UNCHANGED << inputs, addr, sources, adwin, fs, savesDone, lastSaved, prevSaved, saved,
                    rampLog, rampCount, raised >>

\* ----- "Save data to disc" ---------------------------------------------------------
\* mutant: the old backup is not removed before the rename
SaveRemoveBackup_Keep ==
    /\ pc = "save"
    /\ pc' = "saveRename"
    /\ UNCHANGED << inputs, addr, loopvars, sources, adwin, ch, data, fs, history, raised >>

\* if os.path.exists(filename): if os.path.exists(backupname): os.remove(backupname)
SaveRemoveBackup ==
    /\ pc = "save"
    /\ fs' = IF Exists(fs.canon) /\ Exists(fs.bak) THEN [fs EXCEPT !.bak = Absent] ELSE fs
    /\ pc' = "saveRename"
    /\ UNCHANGED << inputs, addr, loopvars, sources, adwin, ch, data, history, raised >>

\* mutant: the prior file is not moved aside
SaveRename_NoRotate ==
    /\ pc = "saveRename"
    /\ pc' = "saveOpen"
    /\ UNCHANGED << inputs, addr, loopvars, sources, adwin, ch, data, fs, history, raised >>

\* mutant: the prior file is removed instead of renamed
SaveRename_Remove ==
    /\ pc = "saveRename"
    /\ fs' = [fs EXCEPT !.canon = Absent]
    /\ pc' = "saveOpen"
    /\ UNCHANGED << inputs, addr, loopvars, sources, adwin, ch, data, history, raised >>

\* if os.path.exists(filename): os.rename(filename, backupname)
SaveRename ==
    /\ pc = "saveRename"
    /\ fs' = IF Exists(fs.canon) THEN [canon |-> Absent, bak |-> fs.canon] ELSE fs
    /\ pc' = "saveOpen"
    /\ UNCHANGED << inputs, addr, loopvars, sources, adwin, ch, data, history, raised >>

\* open(filename, "wb"): the result file is created, or truncated, under its own name
SaveOpen ==
    /\ pc = "saveOpen"
    /\ fs' = [fs EXCEPT !.canon = Partial]
    /\ pc' = "saveDump"
    /\ UNCHANGED << inputs, addr, loopvars, sources, adwin, ch, data, history, raised >>

\* mutant: experiment.data is not refreshed before the dump
Serialized_Stale == Complete(lastSaved)

\* mutant: the file is left unflushed
Serialized_Unflushed == Partial

\* what the closed file holds: experiment.data = data, pickled whole
Serialized == Complete(data)

\* pickle.dump(experiment, file) and the close of the file
SaveDump ==
    /\ pc = "saveDump"
    /\ fs' = [fs EXCEPT !.canon = Serialized]
    /\ savesDone' = savesDone + 1
    /\ prevSaved' = lastSaved
    /\ saved' = IF saved = << >> THEN << fs' >> ELSE << saved[Len(saved)], fs' >>
    /\ lastSaved' = data
    /\ sinceCell' = sinceCell + 1
    /\ sweepUnsaved' = FALSE
    /\ Jump(LoopAfterSave)
    /\ UNCHANGED << inputs, addr, idx_t, sources, adwin, ch, data, writes, gapLog, winLog,
                    rampLog, rampCount, raised >>

\* mutant: the backup is left in place at the end of the script
RemoveBackup_Skip ==
    /\ pc = "rmBackup"
    /\ pc' = "done"
    /\ UNCHANGED << inputs, addr, loopvars, sources, adwin, ch, data, fs, history, raised >>

\* FR, after the temperature loop: if os.path.exists(backupname): os.remove(backupname)
RemoveBackup ==
    /\ pc = "rmBackup"
    /\ fs' = IF Exists(fs.bak) THEN [fs EXCEPT !.bak = Absent] ELSE fs
    /\ pc' = "done"
    /\ UNCHANGED << inputs, addr, loopvars, sources, adwin, ch, data, history, raised >>

\* ----- the ways a run ends early ---------------------------------------------------
\* the process is stopped from outside (Ctrl-C, power loss) at any position
Interrupt ==
    /\ pc \notin Terminal
    /\ pc' = "interrupted"
    /\ UNCHANGED << inputs, addr, loopvars, sources, adwin, ch, data, fs, history, raised >>

\* the positions of one grid cell at which a driver call is made
CellCallPcs == {"vbRamp", "vgsVdsRamp", "setFreq", "measure", "measWait", "store"}

\* a driver call of a grid cell raises: no handler exists, the script ends there
Fail ==
    /\ pc \in CellCallPcs
    /\ Abort("DriverError")
    /\ UNCHANGED << inputs, addr, loopvars, sources, adwin, ch, data, fs, history >>

Next ==
    \/ SetTemperature
    \/ AcBiasUp
    \/ CheckSourceState
    \/ CheckLockin2Reference
    \/ RampHeater
    \/ RampGate
    \/ RampBias
    \/ RampBiasBack
    \/ RampGateBack
    \/ RampVgsVds
    \/ SweepToZero
    \/ ProcFinish
    \/ WaitProcess
    \/ SetFrequency
    \/ Measure
    \/ PollRead
    \/ Store
    \/ SaveRemoveBackup
    \/ SaveRename
    \/ SaveOpen
    \/ SaveDump
    \/ RemoveBackup
    \/ RampHeaterDown
    \/ AcBiasDown
    \/ Interrupt
    \/ Fail

Spec == Init /\ [][Next]_vars


\* ----- observations used by the properties ------------------------------------------
SavePcs == {"save", "saveRename", "saveOpen", "saveDump"}

\* the positions at which the next action applies a setpoint of an axis outside the
\* innermost loop
OuterApplyPcs == {"setT", "ihCheck", "refCheck", "ihRamp", "vgRamp", "vgsVdsRamp"}

\* the newest complete file on disk
NewestComplete ==
    IF fs.canon.kind = "complete" THEN fs.canon.grid
    ELSE IF fs.bak.kind = "complete" THEN fs.bak.grid
    ELSE ZeroGrid

\* cells whose content in memory is not in the newest complete file
Unsaved == { c \in Cells : data[c] # NewestComplete[c] }

\* two cells of one innermost sweep: all indices but the innermost agree
SameSweep(c, d) ==
    /\ c[1] = d[1] /\ c[2] = d[2] /\ c[3] = d[3]
    /\ IF script = "SD" THEN c[5] = d[5] ELSE c[4] = d[4]

Populated(g) == { c \in Cells : \A k \in Channels : g[c][k] # 0 }

\* ----- C1 ----------------------------------------------------------------------------
\* C1: once a first save has completed, at every position of the script (hence at every
\* point an interruption can hit, the steps of a save and the write included) the
\* canonical file or the backup is a complete file holding the grid of one of the two
\* most recent completed saves; no state has zero valid files.
C1_CrashSafe ==
    savesDone >= 1 =>
        \E file \in {fs.canon, fs.bak} :
            /\ file.kind = "complete"
            /\ file.grid \in {lastSaved, prevSaved}

\* interrupted during the write of a later save: only the backup is valid
C1_Witness ==
    /\ pc = "interrupted"
    /\ savesDone >= 1
    /\ fs.canon.kind = "partial"
    /\ fs.bak = Complete(lastSaved)

\* ----- C2 ----------------------------------------------------------------------------
\* C2 as stated: the canonical result path never holds a partially written file.
C2_Original == fs.canon.kind # "partial"

\* C2 amended: there is no temporary path. A save moves the prior result file to the
\* backup name and then writes the new file under the canonical name itself, so the
\* canonical path holds a partial file while (or after an interruption of) that write;
\* whenever it does, the backup is the complete file of the previous save, or absent
\* when no save has completed yet.
C2_PartialCovered ==
    fs.canon.kind = "partial" =>
        fs.bak = IF savesDone = 0 THEN Absent ELSE Complete(lastSaved)

C2_Witness ==
    /\ pc = "saveDump"
    /\ savesDone >= 2
    /\ fs.canon.kind = "partial"
    /\ fs.bak = Complete(lastSaved)

\* ----- C3 ----------------------------------------------------------------------------
\* C3: after N >= 1 saves, outside of a save and of an interruption, the canonical file
\* exists, is complete and holds the grid passed to the most recent save, and the one
\* backup path holds nothing or one complete file; a complete canonical file never
\* holds anything else than the grid of the most recent save.
C3_CanonicalIsLatest ==
    /\ fs.canon.kind = "complete" => savesDone >= 1 /\ fs.canon.grid = lastSaved
    /\ (savesDone >= 1 /\ pc \notin SavePcs \cup {"interrupted"}) =>
            /\ fs.canon = Complete(lastSaved)
            /\ fs.bak.kind \in {"absent", "complete"}

C3_Witness ==
    /\ savesDone >= 2
    /\ pc \notin SavePcs \cup Terminal
    /\ fs.canon = Complete(lastSaved)
    /\ fs.bak = Complete(prevSaved)
    /\ lastSaved # prevSaved

\* ----- C4 ----------------------------------------------------------------------------
\* C4: the first cell of every innermost sweep but the very first is stored after
\* exactly one save since the previous cell, a later cell of a sweep after none, and no
\* setpoint of an outer axis is applied while a completed innermost sweep is unsaved.
C4_OneSaveBetweenSweeps ==
    /\ (gapLog.first /\ gapLog.stored > 1) => gapLog.saves = 1
    /\ ~gapLog.first => gapLog.saves = 0
    /\ pc \in OuterApplyPcs => ~sweepUnsaved

C4_Witness ==
    /\ pc = "store"
    /\ ch = 2
    /\ gapLog.first
    /\ gapLog.stored > 2
    /\ gapLog.saves = 1

\* ----- C5 ----------------------------------------------------------------------------
\* C5: at every position the cells in memory that the newest complete file does not
\* hold all belong to one innermost sweep.
C5_LossBounded == \A c, d \in Unsaved : SameSweep(c, d)

C5_Witness ==
    /\ pc = "interrupted"
    /\ savesDone >= 1
    /\ Cardinality(Unsaved) >= 2
    /\ fs.canon.kind = "partial"

\* ----- C6 ----------------------------------------------------------------------------
\* C6: no channel of a cell is written twice, a channel holds a stored burst exactly
\* when it was written once (nothing else than the store step of its visit changes it),
\* and a run that reaches its end has written every channel of every cell once.
C6_WrittenOnce ==
    \A c \in Cells : \A k \in Channels :
        /\ writes[c][k] <= 1
        /\ (writes[c][k] = 1) <=> (data[c][k] # 0)
        /\ pc = "done" => writes[c][k] = 1

C6_Witness ==
    /\ pc = "done"
    /\ Cardinality(Cells) >= 6
    /\ \A c \in Cells : \A k \in Channels : writes[c][k] = 1


C8_InnerAtBaseline ==
    pc \in {"setT", "ihCheck", "refCheck", "ihRamp"} =>
        ao.ao1 = Zero /\ ao.ao2 = Zero

\* ----- C9 ----------------------------------------------------------------------------
\* C9: when the script reaches its end, the gate output, the bias output, the heater
\* drive and the AC excitation are all at 0.
C9_AllAtBaselineWhenDone ==
    pc = "done" =>
        /\ ao.ao1 = Zero
        /\ ao.ao2 = Zero
        /\ lockin1_out = 0
        /\ lockin2_out = 0

\* ----- C10 ---------------------------------------------------------------------------
\* C10: a ramp whose start equals its target sends exactly the one-element array
\* [target].
C10_NoWastedRamp ==
    \A i \in DOMAIN rampLog :
        rampLog[i].from = rampLog[i].to => rampLog[i].seq = << rampLog[i].target >>

\* ----- C11 ---------------------------------------------------------------------------
\* a sequence of codes that never turns back (strictly monotonic setpoints, seen at the
\* resolution of the output)
Monotonic(seq) ==
    \/ \A i \in 1..(Len(seq) - 1) : seq[i] <= seq[i + 1]
    \/ \A i \in 1..(Len(seq) - 1) : seq[i] >= seq[i + 1]

\* C11: a ramp whose start differs from its target sends an array that begins at the
\* start, ends at the target, never turns back and has at least 2 elements; where a
\* maximum step exists (frequency response) its length is ceil(|b - a| / s), at least 2.
C11_RampReachesTarget ==
    \A i \in DOMAIN rampLog :
        LET r == rampLog[i]
        IN  r.from # r.to =>
                /\ Len(r.seq) >= 2
                /\ r.seq[1] = r.start
                /\ r.seq[Len(r.seq)] = r.target
                /\ Monotonic(r.seq)
                /\ script = "FR" =>
                        Len(r.seq) = Max2(2, CeilDiv(Abs(r.to - r.from), sweep_step))

\* ----- C12 ---------------------------------------------------------------------------
\* C12: every operation on an instrument that was configured without an address is an
\* operator prompt: never a driver call, never left out.
C12_ManualNeverRemote ==
    \A o \in ops : ~loaded[o.inst] => o.kind = "prompt"

\* ----- C13 ---------------------------------------------------------------------------
\* C13: a mean is computed only from a burst that delivered every requested sample: no
\* store step follows a burst that fell short.
C13_NoShortWindow ==
    winLog.total > 0 => winLog.got = winLog.total

\* ----- C14 ---------------------------------------------------------------------------
\* C14: with a zero gain the conversion is rejected before the division: no store step
\* runs and no cell holds a value computed with it.
C14_ZeroDenominatorRejected ==
    avi_gain = 0 =>
        /\ winLog.stat # "nonfinite"
        /\ \A c \in Cells : \A k \in Channels : data[c][k] = 0

\* ----- C15 ---------------------------------------------------------------------------
\* C15: the window read back of a burst of S settle and M measurement samples is the
\* samples S + 1 .. S + M.
C15_WindowAfterSettle ==
    winLog.total > 0 =>
        /\ winLog.lo = winLog.settle + 1
        /\ winLog.hi = winLog.total

\* ----- C16 ---------------------------------------------------------------------------
\* the total of the ramps started
RampTotal ==
    rampCount["gate"] + rampCount["bias"] + rampCount["biasBack"]
        + rampCount["gateBack"] + rampCount["vgsVds"] + rampCount["toZero"]

\* a stability diagram of 1 temperature, 1 heater current, 3 gate and 2 bias values
Grid1x1x3x2 ==
    /\ script = "SD"
    /\ nT = 1 /\ Len(i_h) = 1 /\ Len(vg) = 3 /\ Len(vb) = 2

\* C16 as stated: the complete run of the 1x1x3x2 grid populates the 6 cells with
\* exactly 5 ramps and exactly 2 saves.
C16_Original ==
    (Grid1x1x3x2 /\ pc = "done") =>
        /\ Populated(data) = Cells
        /\ RampTotal = 5
        /\ savesDone = 2

\* C16 amended: a complete run of the stability diagram populates every cell, saves
\* once per gate value of every heater current and temperature, and starts one gate
\* ramp and one ramp of the bias back to 0 per gate value, one bias ramp per cell and
\* one ramp named "gate back to 0" per temperature: for the 1x1x3x2 grid 6 cells,
\* 3 saves and 3 + 6 + 3 + 1 = 13 ramps.
C16_RunCounts ==
    (script = "SD" /\ pc = "done") =>
        LET sweeps == nT * Len(i_h) * Len(vg)
        IN  /\ Populated(data) = Cells
            /\ savesDone = sweeps
            /\ rampCount["gate"] = sweeps
            /\ rampCount["bias"] = sweeps * Len(vb)
            /\ rampCount["biasBack"] = sweeps
            /\ rampCount["gateBack"] = nT
            /\ Grid1x1x3x2 => RampTotal = 13 /\ savesDone = 3

C16_Witness ==
    /\ Grid1x1x3x2
    /\ pc = "done"
    /\ Cardinality(Populated(data)) = 6
    /\ RampTotal = 13
    /\ savesDone = 3

\* ----- C17 ---------------------------------------------------------------------------
\* position of a cell in the lexicographic order of the index tuples
\* (temperature, heater current, gate, bias, frequency), counted from 1
Rank(c) ==
    ((((c[1] - 1) * Len(i_h) + (c[2] - 1)) * Len(vg) + (c[3] - 1)) * Len(vb)
        + (c[4] - 1)) * Len(f) + c[5]

\* positions at which the ramp, the frequency or the acquisition of a cell starts
CellStartPcs == {"vgRamp", "vbRamp", "vgsVdsRamp", "setFreq", "measure"}

\* C17: the n-th burst acquired is stored in the n-th cell of the lexicographic order;
\* a cell is stored from the burst acquired for it after its ramp was started, and
\* all of its channels are stored before the ramp or the acquisition of the next cell
\* starts.
C17_LexOrder ==
    /\ \A c \in Cells : \A k \in Channels : data[c][k] # 0 => data[c][k] = Rank(c)
    /\ pc \in CellStartPcs => Cardinality(Populated(data)) = bursts
    /\ pc = "store" =>
            /\ bursts = Rank(cell)
            /\ script = "SD" => rampCount["bias"] = Rank(cell)
            /\ script = "FR" => (rampCount["vgsVds"] - 1) * Len(f) + idx_f = Rank(cell)

C17_Witness ==
    /\ pc = "done"
    /\ script = "FR"
    /\ Len(vg) >= 2 /\ Len(vb) >= 2 /\ Len(f) >= 2
    /\ \A c \in Cells : \A k \in Channels : data[c][k] = Rank(c)

\* ----- C18 ---------------------------------------------------------------------------
\* mutant: the allocated grid is filled with the float 0.0
Fill_Zero == [nan |-> FALSE, mean |-> 0]

\* the float a cell of the allocated grid holds until a burst is stored in it: the
\* grid class creates the cells empty, marked by the NaN sentinel
Fill == [nan |-> TRUE, mean |-> 0]

\* the float a cell of a pickled grid holds when the burst stored in it averaged to
\* zero: mean(i1) is written as it is, the script sets no flag beside it
HeldAtZeroMean(v) == IF v = 0 THEN Fill ELSE [nan |-> FALSE, mean |-> 0]

Files == {"canon", "bak"}

StoredUpTo(n) == [c \in Cells |-> [k \in Channels |-> IF Rank(c) <= n THEN Rank(c) ELSE 0]]

\* what the result file or its backup may be when a save begins: missing, cut short
\* by an interruption of an earlier run, or the complete file of an earlier save
DurableFiles == { Absent, Partial } \cup { Complete(StoredUpTo(n)) : n \in 0..Cardinality(Cells) }

\* the script at the start of "Save data to disc", on any files and any stored grid
InitSave ==
    /\ aligner = BrainAligner(CHOOSE img \in FixImages : TRUE,
                              CHOOSE img \in MovImages : img.size[1] = 4)
    /\ script \in Scripts
    /\ nT = 1
    /\ i_h = AxisList(IhBase, 0, 1)
    /\ vg = AxisList(VgBase, 0, 1)
    /\ vb \in { AxisList(VbBase, 0, n) : n \in 1..MaxInner }
    /\ f = IF script = "SD" THEN << 0 >> ELSE AxisList(FBase, 0, 1)
    /\ sweep_step = 0
    /\ avi_gain = 10 ^ 6
    /\ addr \in AddrConfigs
    /\ loaded = [k \in DOMAIN addr |-> addr[k] # "None"]
    /\ pc = "save"
    /\ idx_t = 1 /\ idx_i_h = 1 /\ idx_vg = 1 /\ idx_vb = 1 /\ idx_f = 1
    /\ current_input_state = FALSE
    /\ src3 = [input |-> "off", output |-> "on"]
    /\ lockin1_out = 0 /\ lockin2_out = 0
    /\ lockin2_ref = "internal"
    /\ tset = 0
    /\ ops = {}
    /\ par = [k \in {21, 22, 41, 42} |-> 0]
    /\ data21 = << >> /\ data22 = << >>
    /\ ao = [ao1 |-> Zero, ao2 |-> Zero]
    /\ proc = 0
    /\ bursts \in 0..Cardinality(Cells)
    /\ got = 0
    /\ polled = FALSE
    /\ ch = 1
    /\ data = StoredUpTo(bursts)
    /\ fs \in [canon : DurableFiles, bak : DurableFiles]
    /\ writes = [c \in Cells |-> [k \in Channels |-> IF data[c][k] # 0 THEN 1 ELSE 0]]
    /\ savesDone = 0
    /\ lastSaved = ZeroGrid
    /\ prevSaved = ZeroGrid
    /\ saved = << >>
    /\ sinceCell = 0
    /\ gapLog = [first |-> TRUE, saves |-> 0, stored |-> 0]
    /\ winLog = [lo |-> 0, hi |-> 0, got |-> 0, settle |-> 0, total |-> 0,
                 stat |-> "none", input |-> 0, factor |-> << 1, 1 >>]
    /\ sweepUnsaved = FALSE
    /\ rampLog = << >>
    /\ rampCount = [k \in RampKinds |-> 0]
    /\ raised = "none"

\* "Save data to disc" is entered again with the experiment as it was just saved
Resave ==
    /\ pc \notin SavePcs
    /\ savesDone \in {1, 2}
    /\ pc' = "save"
    /\ UNCHANGED << inputs, addr, loopvars, sources, adwin, ch, data, fs, history, raised >>

NextSave ==
    \/ SaveRemoveBackup
    \/ SaveRename
    \/ SaveOpen
    \/ SaveDump
    \/ Resave

SaveSpec == InitSave /\ [][NextSave]_vars

\* the last two completed saves were given the same experiment state
SavedAgain == Len(saved) = 2 /\ lastSaved = prevSaved

\* C19 as stated: a save of the experiment state that was just saved leaves the
\* canonical file and the backup as the save before it left them.
C19_Original == SavedAgain => saved[2] = saved[1]

\* C19: a save of the experiment state that was just saved writes the same canonical
\* file as the save before it and leaves, as the backup, the canonical file of that
\* save, whatever the backup was; from the second save on the files no longer change.
C19_SaveRotates ==
    SavedAgain =>
        /\ saved[2].canon = saved[1].canon
        /\ saved[2].canon = Complete(lastSaved)
        /\ saved[2].bak = saved[1].canon
        /\ savesDone >= 3 => saved[2] = saved[1]

C19_Witness ==
    /\ SavedAgain
    /\ savesDone = 2
    /\ saved[1].bak.kind = "complete"
    /\ saved[1].bak # saved[1].canon
    /\ saved[2].bak = saved[1].canon

\* ----- C20 ---------------------------------------------------------------------------
\* positions at which the script waits for a ramp process it has started
RampWaitPcs == {"vgWait", "vbWait", "vbBackWait", "vgBackWait", "rampWait", "zeroWait"}

\* C20: while a ramp process is running on the setpoints just sent, the first setpoint
\* sent to each output is the value that output holds from the ramp before it.
C20_NoJump ==
    (pc \in RampWaitPcs /\ proc # 0) =>
        \A i \in DOMAIN rampLog :
            rampLog[i].seq # << >> => rampLog[i].seq[1] = ao[rampLog[i].out]

\* ----- C21 ---------------------------------------------------------------------------
\* C21: in every ramp of the frequency-response script, on each of the two outputs,
\* consecutive setpoints of linspace(from, to, n) are at most settings.adc.sweep_step
\* apart: the distance |to - from| is covered by n - 1 intervals of at most that step.
C21_StepBounded ==
    script = "FR" =>
        \A i \in DOMAIN rampLog :
            LET r == rampLog[i]
            IN  Len(r.seq) >= 2 => Abs(r.to - r.from) <= sweep_step * (Len(r.seq) - 1)

\* ----- C22 ---------------------------------------------------------------------------
\* positions between the source-state check of a heater current and its ramp
AfterSourceCheckPcs == {"refCheck", "ihRamp"}

\* C22: after the source-state check of a heater-current step, current_input_state is
\* true exactly when the rms drive of the step is at or above 0.004 V, and it equals
\* the input state the source was last set to, with a driver call or by the operator.
C22_FlagTracksInput ==
    pc \in AfterSourceCheckPcs =>
        /\ current_input_state <=> (Drive(i_h[idx_i_h]) >= 4000)
        /\ current_input_state <=> (src3.input = "on")

\* ----- C23 ---------------------------------------------------------------------------
\* C23: whenever the source-state check sets the input of the current source (driver
\* call or operator prompt), the output of lock-in 1, which drives the source, holds
\* less than 0.004 V rms.
C23_SwitchBelowThreshold ==
    [][(pc = "ihCheck" /\ Op("src3") \in ops') => lockin1_out < 4000]_vars

\* ----- C24 ---------------------------------------------------------------------------
\* C24: no step of the script changes settings.<instrument>.address of any instrument:
\* an instrument is remote or manual as configured, at every step.
C24_AddressFixed == [][addr' = addr]_vars

\* ----- C25 ---------------------------------------------------------------------------
\* settings.lockin2.reference: set once in the settings and assigned nowhere else; the
\* reference check reads it and assigns settings.lockin2.address in its place
lockin2_reference == "internal"

\* the reference the heater drive of the current step calls for: internal below
\* 0.1 V rms, external otherwise
ReferenceFor(drive) == IF drive < 100000 THEN "internal" ELSE "external"

\* C25: after the lock-in 2 reference check of a heater-current step, the recorded
\* reference settings.lockin2.reference is the one the drive of the step calls for.
C25_ReferenceRecorded ==
    (script = "FR" /\ pc = "ihRamp") =>
        lockin2_reference = ReferenceFor(Drive(i_h[idx_i_h]))

\* ----- C26 ---------------------------------------------------------------------------
\* C26: a step that starts an ADwin process, and a step that reads the acquisition
\* arrays (for the figure in the measurement loop, or to store a cell), is taken only
\* while no process started earlier is running.
C26_NoOverlap ==
    [][/\ (proc' # proc /\ proc' # 0) => proc = 0
       /\ ((polled' /\ ~polled) \/ pc = "store") => proc = 0]_vars

\* ----- C27 ---------------------------------------------------------------------------
\* positions at which the script polls a process it has started: the waits after the
\* ramps and the measurement loop
WaitLoopPcs == RampWaitPcs \cup {"measWait"}

\* every started process stops, and a poll loop whose exit test is met is left
FairSpec == Spec /\ WF_vars(ProcFinish) /\ WF_vars(WaitProcess)

\* C27: once every started process stops, every wait loop the script enters is left.
C27_WaitsExit == (pc \in WaitLoopPcs) ~> (pc \notin WaitLoopPcs)

\* ----- C28 ---------------------------------------------------------------------------
\* C28: in a save that finds a prior result file, the backup is gone when the prior
\* file is renamed, the rename makes the prior file the backup, the new file is opened
\* only when no file holds the result name, and the write leaves the backup alone.
C28_SaveOrder ==
    [][/\ (pc = "saveRename" /\ Exists(fs.canon)) =>
            /\ ~Exists(fs.bak)
            /\ pc' = "saveOpen" => (fs'.bak = fs.canon /\ ~Exists(fs'.canon))
       /\ (pc = "saveOpen" /\ pc' = "saveDump") =>
            /\ ~Exists(fs.canon)
            /\ fs'.bak = fs.bak
            /\ savesDone >= 1 => fs.bak = Complete(lastSaved)
       /\ (pc = "saveDump" /\ pc' \notin SavePcs \cup {"interrupted"}) =>
            /\ fs'.bak = fs.bak
            /\ fs'.canon.kind = "complete"]_vars

C28_Witness ==
    /\ pc = "saveDump"
    /\ savesDone >= 2
    /\ fs.canon = Partial
    /\ fs.bak = Complete(lastSaved)
    /\ lastSaved # prevSaved

\* ----- C29 ---------------------------------------------------------------------------
\* C29: the factor applied to the voltage read from an analog output of a lock-in is
\* sensitivity / 10, the inverse of Output = signal / sensitivity x 10 V, on the
\* inputs of lock-in 1 and of lock-in 2 alike.
C29_SameInversion ==
    LockinOf(winLog.input) # 0 =>
        winLog.factor[1] * (10 * lockin_sensitivity[2])
            = lockin_sensitivity[1] * winLog.factor[2]

\* ----- C30 ---------------------------------------------------------------------------
\* positions at which a ramp built from the read-back of the outputs is running (FR)
ReadBackRampPcs == {"rampWait", "zeroWait"}

\* C30: the value read back from an output with the gain of its axis, divided again by
\* the gain the ramp is built with, is the code the output holds.
C30_RoundTrip ==
    (script = "FR" /\ pc \in ReadBackRampPcs /\ proc # 0) =>
        \A i \in DOMAIN rampLog : rampLog[i].start = ao[rampLog[i].out]

\* ----- C31 ---------------------------------------------------------------------------
\* C31: in the frequency-response script the window read back for a cell starts no
\* earlier than the last settle sample of the burst of that cell, ends inside the
\* burst, and has as many samples as the measurement time of the frequency.
C31_WindowFromBurstTimes ==
    (script = "FR" /\ winLog.total > 0) =>
        /\ winLog.lo >= winLog.settle
        /\ winLog.hi <= winLog.total
        /\ winLog.hi - winLog.lo + 1 = winLog.total - winLog.settle

\* ----- C32 ---------------------------------------------------------------------------
\* C32: with a remotely controlled current source, every step that ramps the heater
\* drive to a value other than zero is taken with the output of the source on.
C32_OutputOnWhenHeating ==
    [][ ( /\ pc = "ihRamp"
          /\ pc' \in {"vgRamp", "vgsVdsRamp"}
          /\ addr.src3 # "None"
          /\ lockin1_out' > 0 ) => src3.output = "on" ]_vars

\* ----- C33 ---------------------------------------------------------------------------
\* val_i_h_ of the heater loop: the start of the sweep of lock-in 1 in "Ramp up heater
\* current", 0 for the first heater current and the previous one after it
val_i_h_ == IF idx_i_h = 1 THEN 0 ELSE i_h[idx_i_h - 1]

\* val_i_h after the heater loop: the start of the sweep in "Ramp down heater current"
val_i_h_last == i_h[Len(i_h)]

\* C33: a temperature setpoint is applied with the heater drive and the AC excitation
\* at 0, and each sweep of a temperature step starts at the value the lock-in holds:
\* the excitation goes up from 0 and down from its amplitude, the heater drive goes up
\* from the previous heater current and down from the last one, both down to 0.
C33_RampsFromHeldValue ==
    /\ pc \in {"setT", "acUp"} => lockin1_out = 0 /\ lockin2_out = 0
    /\ pc = "ihRamp" => lockin1_out = Drive(val_i_h_) /\ lockin2_out = v_ex_rms
    /\ pc = "ihDown" => lockin1_out = Drive(val_i_h_last) /\ lockin2_out = v_ex_rms
    /\ pc = "acDown" => lockin1_out = 0 /\ lockin2_out = v_ex_rms

\* the second temperature setpoint is applied after a step that heated
C33_Witness ==
    /\ pc = "acUp"
    /\ idx_t = 2
    /\ tset = 2
    /\ Drive(val_i_h_last) > 0
    /\ lockin1_out = 0
    /\ lockin2_out = 0

\* ----- C34 ---------------------------------------------------------------------------
\* C34: the files a completed save leaves, from the second save on: the backup is the
\* complete file of the experiment state the save before it wrote, which is the
\* canonical file that save left, and the canonical file is the complete file of the
\* state of this save.
C34_BackupIsPrevious ==
    (savesDone >= 2 /\ Len(saved) = 2) =>
        /\ saved[2].bak = Complete(prevSaved)
        /\ saved[2].bak = saved[1].canon
        /\ saved[2].canon = Complete(lastSaved)

\* a third save of new data has replaced the backup the second save left
C34_Witness ==
    /\ savesDone >= 3
    /\ Len(saved) = 2
    /\ lastSaved # prevSaved
    /\ saved[1].bak.kind = "complete"
    /\ saved[2].bak # saved[1].bak
    /\ saved[2].bak = Complete(prevSaved)
    /\ saved[2].canon = Complete(lastSaved)

\* ----- C35 ---------------------------------------------------------------------------
\* C35: in the frequency-response script the backup is removed at the end of a sweep
\* that ran through, when every cell is stored and the last save has written the final
\* state under the canonical name; the script ends with that one complete file and no
\* backup.
C35_BackupRemovedLast ==
    (script = "FR" /\ pc \in {"rmBackup", "done"}) =>
        /\ gapLog.stored = Cardinality(Cells)
        /\ lastSaved = data
        /\ fs.canon = Complete(data)
        /\ pc = "done" => fs.bak = Absent

\* the script has ended after two saves or more; the backup of the last save is gone
C35_Witness ==
    /\ script = "FR"
    /\ pc = "done"
    /\ savesDone >= 2
    /\ Len(saved) = 2
    /\ saved[2].bak.kind = "complete"
    /\ fs.bak = Absent
    /\ fs.canon = Complete(data)

\* ----- the image aligner: its handlers ---------------------------------------------
\* labels of the nine axes of the figure (create_figure)
Labels == { "xy fix", "xz fix", "yz fix", "xy mov", "xz mov", "yz mov",
            "xy ovl", "xz ovl", "yz ovl" }

\* event.xdata and event.ydata of a click, in physical units; the images are drawn
\* with y running from 0 down to -size * spacing
ClickX == { 1, 3 }
ClickY == { -1 }

\* button_press_event: event.inaxes, event.button (1 left, 2 middle, 3 right)
ClickEvents ==
    [inaxes : BOOLEAN, button : {1, 2, 3}, label : Labels, xdata : ClickX, ydata : ClickY]

\* key_press_event: event.key
KeyEvents == { "enter", "r", "up", "down", "a" }

SliceIndices == { "i", "j", "k", "l", "m", "n" }

\* the left-click branch of on_click: int(event.xdata // spacing) and
\* int(-1 * event.ydata // spacing) on the two axes of the view
LeftClick(a, event) ==
    LET fx(d) == event.xdata \div a.fix_img.spacing[d]
        fy(d) == (0 - event.ydata) \div a.fix_img.spacing[d]
        mx(d) == event.xdata \div a.mov_img.spacing[d]
        my(d) == (0 - event.ydata) \div a.mov_img.spacing[d]
    IN  CASE event.label = "xy fix" -> [a EXCEPT !.i = fx(1), !.j = fy(2)]
          [] event.label = "xz fix" -> [a EXCEPT !.i = fx(1), !.k = fy(3)]
          [] event.label = "yz fix" -> [a EXCEPT !.j = fx(2), !.k = fy(3)]
          [] event.label = "xy mov" -> [a EXCEPT !.l = mx(1), !.m = my(2)]
          [] event.label = "xz mov" -> [a EXCEPT !.l = mx(1), !.n = my(3)]
          [] event.label = "yz mov" -> [a EXCEPT !.m = mx(2), !.n = my(3)]
          [] OTHER -> a

\* mutant: the moving-image indices are left where they were
RightClick_NoAlign(a) ==
    LET target == TransformIndexToPhysicalPoint(a.mov_img, << a.i, a.j, a.k >>)
        origin == TransformIndexToPhysicalPoint(a.mov_img, << a.l, a.m, a.n >>)
        shift == TranslationTransform([x \in 1..3 |-> 0 - (target[x] - origin[x])])
    IN  [a EXCEPT !.transform = shift, !.mov_img = Resample(a.mov_img, shift)]

\* the right-click branch of on_click: the moving image is resampled by the offset
\* -(target - origin), the recorded offset is then set to delta_lmn - delta_ijk
RightClick(a) ==
    LET target == TransformIndexToPhysicalPoint(a.mov_img, << a.i, a.j, a.k >>)
        origin == TransformIndexToPhysicalPoint(a.mov_img, << a.l, a.m, a.n >>)
        shift == TranslationTransform([x \in 1..3 |-> 0 - (target[x] - origin[x])])
        moved == Resample(a.mov_img, shift)
        delta_lmn == TransformIndexToPhysicalPoint(
                         moved, << a.l - a.l0, a.m - a.m0, a.n - a.n0 >>)
        delta_ijk == TransformIndexToPhysicalPoint(
                         moved, << a.i - a.i0, a.j - a.j0, a.k - a.k0 >>)
    IN  [a EXCEPT !.transform =
                      TranslationTransform([x \in 1..3 |-> delta_lmn[x] - delta_ijk[x]]),
                  !.mov_img = moved,
                  !.l = a.i, !.m = a.j, !.n = a.k]

\* on_click(event); update_figure only redraws
Click(a, event) ==
    IF ~event.inaxes THEN a
    ELSE IF event.button = 1 THEN LeftClick(a, event)
    ELSE IF event.button = 3 THEN RightClick(a)
    ELSE a

\* update_transform(transform)
update_transform(current, transform) ==
    IF ~current.set THEN transform ELSE CompositeTransform(current, transform)

\* event.key == "enter": self.transform.GetParameters() is printed, then the figure
\* is closed; None has no GetParameters
KeyEnter(a) ==
    IF ~a.transform.set THEN [a EXCEPT !.err = "AttributeError"]
    ELSE [a EXCEPT !.open = FALSE]

\* event.key == "r": None has no GetInverse; the six assignments of the central slice
\* are commented out
KeyR(a) ==
    IF ~a.transform.set THEN [a EXCEPT !.err = "AttributeError"]
    ELSE [a EXCEPT !.mov_img = Resample(a.mov_img, GetInverse(a.transform)),
                   !.transform = None]

\* event.key == "up" (scale 0.9) and "down" (scale 1.1), about the moving-image center
KeyScale(a, num, den) ==
    LET rescale == ScaleTransform(num, den,
                       TransformIndexToPhysicalPoint(a.mov_img, << a.l, a.m, a.n >>))
    IN  [a EXCEPT !.mov_img = Resample(a.mov_img, rescale),
                  !.transform = update_transform(a.transform, rescale)]

\* on_key(event)
Key(a, key) ==
    CASE key = "enter" -> KeyEnter(a)
      [] key = "r" -> KeyR(a)
      [] key = "up" -> KeyScale(a, 9, 10)
      [] key = "down" -> KeyScale(a, 11, 10)
      [] OTHER -> a

\* the lab-script variables: idle while the aligner runs
lab == << script, nT, i_h, vg, vb, f, sweep_step, avi_gain, loaded, addr, pc, loopvars,
          sources, adwin, ch, data, fs, history, raised >>

\* a button_press_event is delivered to on_click
on_click ==
    /\ aligner.open
    /\ aligner.events < MaxEvents
    /\ \E event \in ClickEvents :
          aligner' = [Click([aligner EXCEPT !.err = "none"], event) EXCEPT
                         !.event = [type |-> "click", button |-> event.button,
                                    label |-> IF event.inaxes THEN event.label ELSE "",
                                    key |-> ""],
                         !.events = @ + 1]
    /\ UNCHANGED lab

\* a key_press_event is delivered to on_key
on_key ==
    /\ aligner.open
    /\ aligner.events < MaxEvents
    /\ \E key \in KeyEvents :
          aligner' = [Key([aligner EXCEPT !.err = "none"], key) EXCEPT
                         !.event = [type |-> "key", button |-> 0, label |-> "",
                                    key |-> key],
                         !.events = @ + 1]
    /\ UNCHANGED lab

\* execute(): the aligner is built on a fixed and a moving image and shows its figure
InitAligner ==
    /\ aligner \in { BrainAligner(fix_img, mov_img) :
                        fix_img \in FixImages, mov_img \in MovImages }
    /\ script = "SD"
    /\ nT = 1
    /\ i_h = AxisList(IhBase, 0, 1)
    /\ vg = AxisList(VgBase, 0, 1)
    /\ vb = AxisList(VbBase, 0, 1)
    /\ f = << 0 >>
    /\ sweep_step = 0
    /\ avi_gain = 10 ^ 6
    /\ addr = CHOOSE a \in AddrConfigs : a.tc = "None"
    /\ loaded = [x \in DOMAIN addr |-> FALSE]
    /\ pc = "done"
    /\ idx_t = 1 /\ idx_i_h = 1 /\ idx_vg = 1 /\ idx_vb = 1 /\ idx_f = 1
    /\ current_input_state = FALSE
    /\ src3 = [input |-> "off", output |-> "on"]
    /\ lockin1_out = 0 /\ lockin2_out = 0
    /\ lockin2_ref = "internal"
    /\ tset = 0
    /\ ops = {}
    /\ par = [x \in {21, 22, 41, 42} |-> 0]
    /\ data21 = << >> /\ data22 = << >>
    /\ ao = [ao1 |-> Zero, ao2 |-> Zero]
    /\ proc = 0
    /\ bursts = 0
    /\ got = 0
    /\ polled = FALSE
    /\ ch = 1
    /\ data = ZeroGrid
    /\ fs = [canon |-> Absent, bak |-> Absent]
    /\ writes = ZeroGrid
    /\ savesDone = 0
    /\ lastSaved = ZeroGrid
    /\ prevSaved = ZeroGrid
    /\ saved = << >>
    /\ sinceCell = 0
    /\ gapLog = [first |-> TRUE, saves |-> 0, stored |-> 0]
    /\ winLog = [lo |-> 0, hi |-> 0, got |-> 0, settle |-> 0, total |-> 0,
                 stat |-> "none", input |-> 0, factor |-> << 1, 1 >>]
    /\ sweepUnsaved = FALSE
    /\ rampLog = << >>
    /\ rampCount = [x \in RampKinds |-> 0]
    /\ raised = "none"

NextAligner == on_click \/ on_key

AlignerSpec == InitAligner /\ [][NextAligner]_vars

\* ----- C36 ---------------------------------------------------------------------------
\* the slice indices a step of the aligner changes
Changed == { x \in SliceIndices : aligner'[x] # aligner[x] }

\* the two indices of the plane a view shows; the overlay views select nothing
PlaneOf(label) ==
    CASE label = "xy fix" -> { "i", "j" }
      [] label = "xz fix" -> { "i", "k" }
      [] label = "yz fix" -> { "j", "k" }
      [] label = "xy mov" -> { "l", "m" }
      [] label = "xz mov" -> { "l", "n" }
      [] label = "yz mov" -> { "m", "n" }
      [] OTHER -> { }

\* C36: a right click inside an axes sets (l, m, n) to (i, j, k), leaves (i, j, k) as
\* they are and records a translation; a left click inside an axes changes no index
\* but the two of the plane of the clicked view, and leaves the recorded transform and
\* the moving image alone.
C36_ClickFrame ==
    [][ /\ (aligner'.event.type = "click" /\ aligner'.event.label # ""
              /\ aligner'.event.button = 3) =>
            /\ << aligner'.l, aligner'.m, aligner'.n >>
                   = << aligner.i, aligner.j, aligner.k >>
            /\ << aligner'.i, aligner'.j, aligner'.k >>
                   = << aligner.i, aligner.j, aligner.k >>
            /\ aligner'.transform.set
            /\ Len(aligner'.transform.parts) = 1
            /\ aligner'.transform.parts[1].kind = "translation"
        /\ (aligner'.event.type = "click" /\ aligner'.event.label # ""
              /\ aligner'.event.button = 1) =>
            /\ Changed \subseteq PlaneOf(aligner'.event.label)
            /\ aligner'.transform = aligner.transform
            /\ aligner'.mov_img = aligner.mov_img ]_vars

\* a right click has aligned the moving-image center with a fixed-image center that
\* left clicks had moved off the central slice on two planes
C36_Witness ==
    /\ aligner.event.type = "click"
    /\ aligner.event.button = 3
    /\ aligner.event.label # ""
    /\ aligner.i # aligner.i0
    /\ aligner.k # aligner.k0
    /\ << aligner.l, aligner.m, aligner.n >> = << aligner.i, aligner.j, aligner.k >>
    /\ aligner.transform.set
    /\ aligner.transform.parts[1].offset # << 0, 0, 0 >>

\* ----- C37 ---------------------------------------------------------------------------
\* C37: a press of 'r' with a recorded transform applies the inverse of that transform
\* to the moving image, clears the recorded transform and sets the six slice indices
\* back to the central slice.
C37_ResetRestoresCenter ==
    [][ (aligner'.event.key = "r" /\ aligner.transform.set) =>
            /\ aligner'.mov_img = Resample(aligner.mov_img, GetInverse(aligner.transform))
            /\ aligner'.transform = None
            /\ << aligner'.i, aligner'.j, aligner'.k >>
                   = << aligner.i0, aligner.j0, aligner.k0 >>
            /\ << aligner'.l, aligner'.m, aligner'.n >>
                   = << aligner.l0, aligner.m0, aligner.n0 >> ]_vars

\* ----- C38 ---------------------------------------------------------------------------
\* C38: no press of 'r' or Enter ends in the AttributeError of a call on a transform
\* that is not set.
C38_KeysNeedNoTransform ==
    aligner.event.key \in { "r", "enter" } => aligner.err # "AttributeError"

====
